---- MODULE Spec2Model ----
(***************************************************************************)
(* Model of the filter/query execution engine of fiat-lux-agents:          *)
(*   filter_engine.py               FilterEngine (stack of filters, apply) *)
(*   hierarchical_filter_engine.py  HierarchicalFilterEngine.enrich        *)
(*   query_engine.py                validate_query, execute_query,         *)
(*                                  execute_fig_code                       *)
(***************************************************************************)
EXTENDS Integers, Sequences, FiniteSets, TLC

VARIABLES active_filters, call, enr, q, sessions, dig

vars == <<active_filters, call, enr, q, sessions, dig>>

(***************************************************************************)
(* Bounds of the model.                                                    *)
(***************************************************************************)
MaxStack == 2
MaxData == 2
MaxFilters == 2

(***************************************************************************)
(* Python values: None, int, str.  A dict is a function from keys          *)
(* (strings) to values; a key that is missing is not in its DOMAIN.        *)
(***************************************************************************)
PyNone == [t |-> "none", v |-> 0]
PyInt(n) == [t |-> "int", v |-> n]
PyStr(s) == [t |-> "str", v |-> s]
PyList(s) == [t |-> "list", v |-> s]

RECURSIVE GCD(_, _)
GCD(a, b) == IF b = 0 THEN a ELSE GCD(b, a % b)

\* the float n / d (d > 0, n >= 0), kept as a reduced fraction
PyFloat(n, d) == [t |-> "float", v |-> <<n \div GCD(n, d), d \div GCD(n, d)>>]

\* a == b on None / int / str: equal type and equal value
PyEq(a, b) == a.t = b.t /\ (a.t = "none" \/ a.v = b.v)

\* d.get(k): the value under k, None when k is missing
DictGet(d, k) == IF k \in DOMAIN d THEN d[k] ELSE PyNone

\* {**d, k: v}
DictPut(d, k, v) == [x \in (DOMAIN d) \cup {k} |-> IF x = k THEN v ELSE d[x]]

RECURSIVE SeqToSet(_)
SeqToSet(s) == IF s = <<>> THEN {} ELSE {Head(s)} \cup SeqToSet(Tail(s))

SeqsUpTo(S, n) == UNION {[1..k -> S] : k \in 0..n}

(***************************************************************************)
(* The records the caller filters.  A record is an object: the collection  *)
(* passed to apply is a list of references (indices into Records), so the  *)
(* same record may occur twice and a result names the records it kept.     *)
(***************************************************************************)
Records ==
  << [id |-> PyInt(1), status |-> PyStr("completed"), amount |-> PyInt(150)],
     [id |-> PyInt(2), status |-> PyStr("pending"), amount |-> PyInt(50)],
     [id |-> PyInt(3), status |-> PyStr("completed")] >>

RecordRefs == DOMAIN Records

(***************************************************************************)
(* query_engine.py: the validator.                                         *)
(***************************************************************************)
BLOCKED_SUBSTRINGS ==
  {"__import__", "__builtins__", "__class__", "__dict__", "__code__",
   "subprocess", "importlib", "execfile", "raw_input"}

BLOCKED_CALLS ==
  {"eval", "exec", "__import__", "open", "compile", "globals", "locals",
   "vars", "dir", "getattr", "setattr", "delattr", "hasattr", "callable",
   "os", "sys", "subprocess", "importlib", "pickle", "shelve",
   "input", "raw_input", "file", "execfile"}

\* The built-ins of the restricted namespace of execute_query/execute_fig_code
SafeBuiltins ==
  {"len", "max", "min", "sum", "abs", "round", "sorted", "list", "dict",
   "str", "int", "float", "bool", "True", "False", "None", "range",
   "enumerate", "zip", "print"}

\* The built-ins of an unrestricted Python namespace (the ones the model names)
PyBuiltins ==
  SafeBuiltins \cup
  {"eval", "exec", "__import__", "open", "compile", "globals", "locals",
   "vars", "dir", "getattr", "setattr", "delattr", "hasattr", "callable",
   "input", "exit", "type", "isinstance"}

(***************************************************************************)
(* The code strings of the model, each with what Python makes of it:       *)
(*   blocked  the BLOCKED_SUBSTRINGS occurring in the lower-cased text     *)
(*   parses   whether ast.parse(text) succeeds                             *)
(*   nodes    the nodes ast.walk yields that the validator looks at        *)
(*            (a Call carries the callee's name when it is a bare          *)
(*            identifier, "" otherwise)                                    *)
(*   names    the global names the code reads when it runs                 *)
(***************************************************************************)
Node(kind, id) == [kind |-> kind, id |-> id]

P_total == "lambda r: r.get('status') == 'completed'"
P_partial == "lambda r: r['amount'] > 100"
P_syntax == "lambda r: r['amount'] >"
P_denied == "lambda r: hasattr(r, 'get')"
P_literal == "42"

Q_frame == "result = df.head(2)"
Q_import == "import os\nresult = 1"
Q_dunder == "result = __import__('os')"
Q_syntax == "result = df["
Q_open == "result = open('x')"
Q_keyerror == "result = df['nope'].sum()"
Q_noresult == "x = 1"
Q_int == "result = 42"
Q_tuple == "result = (1, 2)"
Q_def == "def f():\n    return 1\nresult = 1"
Q_class == "class A:\n    pass\nresult = 1"
Q_fig == "fig = px.bar(df)"
Q_series == "result = df['amount']"
Q_empty == ""
Q_all == "result = df"
Q_str == "result = 'abc'"
Q_float == "result = 1.5"
Q_bool == "result = True"
Q_list == "result = [1, 2]"
Q_dict == "result = {'a': 1}"
Q_while == "while True:\n    pass"
Q_async == "async def f():\n    return 1\nresult = 1"
Q_nested_import == "if True:\n    import os\nresult = 1"
Q_nested_call == "result = [str(eval('1'))]"
Q_attr_call == "result = int(df.eval('amount > 100').sum())"

Source(text) ==
  CASE text = P_total ->
         [blocked |-> {}, parses |-> TRUE,
          nodes |-> {Node("Lambda", ""), Node("Call", "")}, names |-> {}]
    [] text = P_partial ->
         [blocked |-> {}, parses |-> TRUE,
          nodes |-> {Node("Lambda", "")}, names |-> {}]
    [] text = P_syntax ->
         [blocked |-> {}, parses |-> FALSE, nodes |-> {}, names |-> {}]
    [] text = P_denied ->
         [blocked |-> {}, parses |-> TRUE,
          nodes |-> {Node("Lambda", ""), Node("Call", "hasattr")},
          names |-> {"hasattr"}]
    [] text = P_literal ->
         [blocked |-> {}, parses |-> TRUE, nodes |-> {}, names |-> {}]
    [] text = Q_frame ->
         [blocked |-> {}, parses |-> TRUE,
          nodes |-> {Node("Call", "")}, names |-> {"df"}]
    [] text = Q_import ->
         [blocked |-> {}, parses |-> TRUE,
          nodes |-> {Node("Import", "")}, names |-> {"__import__"}]
    [] text = Q_dunder ->
         [blocked |-> {"__import__"}, parses |-> TRUE,
          nodes |-> {Node("Call", "__import__")}, names |-> {"__import__"}]
    [] text = Q_syntax ->
         [blocked |-> {}, parses |-> FALSE, nodes |-> {}, names |-> {}]
    [] text = Q_open ->
         [blocked |-> {}, parses |-> TRUE,
          nodes |-> {Node("Call", "open")}, names |-> {"open"}]
    [] text = Q_keyerror ->
         [blocked |-> {}, parses |-> TRUE,
          nodes |-> {Node("Call", "")}, names |-> {"df"}]
    [] text = Q_noresult ->
         [blocked |-> {}, parses |-> TRUE, nodes |-> {}, names |-> {}]
    [] text = Q_int ->
         [blocked |-> {}, parses |-> TRUE, nodes |-> {}, names |-> {}]
    [] text = Q_tuple ->
         [blocked |-> {}, parses |-> TRUE, nodes |-> {}, names |-> {}]
    [] text = Q_def ->
         [blocked |-> {}, parses |-> TRUE,
          nodes |-> {Node("FunctionDef", "")}, names |-> {}]
    [] text = Q_class ->
         [blocked |-> {}, parses |-> TRUE,
          nodes |-> {Node("ClassDef", "")}, names |-> {"__build_class__"}]
    [] text = Q_series ->
         [blocked |-> {}, parses |-> TRUE, nodes |-> {}, names |-> {"df"}]
    [] text = Q_fig ->
         [blocked |-> {}, parses |-> TRUE,
          nodes |-> {Node("Call", "")}, names |-> {"px", "df"}]
    [] text = Q_all ->
         [blocked |-> {}, parses |-> TRUE, nodes |-> {}, names |-> {"df"}]
    [] text \in {Q_str, Q_float, Q_bool, Q_list, Q_dict} ->
         [blocked |-> {}, parses |-> TRUE, nodes |-> {}, names |-> {}]
    [] text = Q_while ->
         [blocked |-> {}, parses |-> TRUE,
          nodes |-> {Node("While", "")}, names |-> {}]
    [] text = Q_async ->
         [blocked |-> {}, parses |-> TRUE,
          nodes |-> {Node("AsyncFunctionDef", "")}, names |-> {}]
    [] text = Q_nested_import ->
         [blocked |-> {}, parses |-> TRUE,
          nodes |-> {Node("Import", "")}, names |-> {"__import__"}]
    [] text = Q_nested_call ->
         [blocked |-> {}, parses |-> TRUE,
          nodes |-> {Node("Call", "str"), Node("Call", "eval")},
          names |-> {"str", "eval"}]
    [] text = Q_attr_call ->
         [blocked |-> {}, parses |-> TRUE,
          nodes |-> {Node("Call", "int"), Node("Call", "")},
          names |-> {"int", "df"}]
    [] OTHER ->
         [blocked |-> {}, parses |-> TRUE, nodes |-> {}, names |-> {}]

\* class QueryValidationError(Exception): the one exception class the module
\* defines, and the base class of each class
ExceptionClasses == {"QueryValidationError"}
ExcBase(c) == CASE c = "QueryValidationError" -> "Exception"
                [] OTHER -> "BaseException"

\* the outcome of validate_query: exc is the class of the exception raised
Ok == [ok |-> TRUE, error |-> "", exc |-> ""]
Rejected(msg) == [ok |-> FALSE, error |-> msg, exc |-> "QueryValidationError"]

\* validate_query(query_code): Ok for "returns True", Rejected(msg) for
\* "raises QueryValidationError(msg)".  query_code is a Python value.
validate_query(query_code) ==
  IF query_code.t # "str" \/ query_code.v = ""
  THEN Rejected("Query code must be a non-empty string")
  ELSE LET src == Source(query_code.v) IN
       IF src.blocked # {}
       THEN Rejected("Blocked operation")
       ELSE IF ~src.parses
       THEN Rejected("Invalid Python syntax")
       ELSE IF \E n \in src.nodes : n.kind \in {"Import", "ImportFrom"}
       THEN Rejected("Import statements are not allowed")
       ELSE IF \E n \in src.nodes : n.kind = "FunctionDef"
       THEN Rejected("Function definitions are not allowed")
       ELSE IF \E n \in src.nodes : n.kind = "ClassDef"
       THEN Rejected("Class definitions are not allowed")
       ELSE IF \E n \in src.nodes : n.kind = "Call" /\ n.id \in BLOCKED_CALLS
       THEN Rejected("Blocked function call")
       ELSE Ok

(***************************************************************************)
(* Python's eval(expr) of a filter condition and the call of its result.   *)
(***************************************************************************)
\* eval(lambda_expr) in a namespace with the given built-ins:
\* "raise" (not a string, a syntax error), "function" or "value"
py_eval(lambda_expr, builtins) ==
  IF lambda_expr.t # "str" THEN "raise"
  ELSE IF ~Source(lambda_expr.v).parses THEN "raise"
  ELSE IF \E n \in Source(lambda_expr.v).nodes : n.kind = "Lambda"
       THEN "function"
       ELSE "value"

\* filter_func(item), by the expression's text: "True" / "False" for the
\* truth value of what it returns, "raise" when the call raises
py_call(lambda_expr, item, builtins) ==
  IF py_eval(lambda_expr, builtins) # "function" THEN "raise"
  ELSE IF ~(Source(lambda_expr.v).names \subseteq builtins) THEN "raise"
  ELSE CASE lambda_expr.v = P_total ->
              IF PyEq(DictGet(item, "status"), PyStr("completed"))
              THEN "True" ELSE "False"
         [] lambda_expr.v = P_partial ->
              IF "amount" \notin DOMAIN item THEN "raise"
              ELSE IF item["amount"].t # "int" THEN "raise"
              ELSE IF item["amount"].v > 100 THEN "True" ELSE "False"
         [] lambda_expr.v = P_denied -> "True"
         [] OTHER -> "raise"

(***************************************************************************)
(* filter_engine.py                                                        *)
(***************************************************************************)
\* The namespace eval(lambda_expr) runs in: no globals are passed, so it is
\* the module's own, with every built-in
FilterEvalBuiltins == PyBuiltins

\* not filter_spec.get('enabled', True)
IsDisabled(filter_spec) ==
  IF "enabled" \in DOMAIN filter_spec THEN ~filter_spec["enabled"] ELSE FALSE

\* The evaluations apply performs, for the claims about what is evaluated:
\* [phase |-> "eval", code, builtins] for eval(lambda_expr) and
\* [phase |-> "call", code, builtins, item] for filter_func(item)
EvalEvent(code) ==
  [phase |-> "eval", code |-> code, builtins |-> FilterEvalBuiltins, item |-> 0]
CallEvent(code, item) ==
  [phase |-> "call", code |-> code, builtins |-> FilterEvalBuiltins, item |-> item]

\* Faulty variant of _apply_field_match: the exclude branch forgets "not matches"
apply_field_match_exclude_all(items, field, condition, filter_type) ==
  LET keep(i) ==
        LET matches == PyEq(DictGet(Records[i], field), condition) IN
          \/ filter_type = "include" /\ matches
          \/ filter_type = "exclude"
  IN SelectSeq(items, keep)

\* Faulty variant of _apply_field_match: a record without the field matches
\* nothing (item[field] read only when the field is there)
apply_field_match_present_only(items, field, condition, filter_type) ==
  LET keep(i) ==
        LET matches == /\ field \in DOMAIN Records[i]
                       /\ PyEq(DictGet(Records[i], field), condition) IN
          \/ filter_type = "include" /\ matches
          \/ filter_type = "exclude" /\ ~matches
  IN SelectSeq(items, keep)

\* _apply_field_match(items, field, condition, filter_type)
apply_field_match(items, field, condition, filter_type) ==
  LET keep(i) ==
        LET matches == PyEq(DictGet(Records[i], field), condition) IN
          \/ filter_type = "include" /\ matches
          \/ filter_type = "exclude" /\ ~matches
  IN SelectSeq(items, keep)

\* Faulty variant of _apply_computed: a condition that fails to compile drops everything
apply_computed_drop_on_compile_error(items, lambda_expr, filter_type) ==
  IF py_eval(lambda_expr, FilterEvalBuiltins) = "raise"
  THEN <<>>
  ELSE LET keep(i) ==
             LET matches == py_call(lambda_expr, Records[i], FilterEvalBuiltins) IN
               \/ filter_type = "include" /\ matches = "True"
               \/ filter_type = "exclude" /\ matches = "False"
       IN SelectSeq(items, keep)

\* Faulty variant of _apply_computed: a record whose evaluation raises counts as a
\* non-match (the try/except sets matches = False instead of skipping)
apply_computed_raise_is_false(items, lambda_expr, filter_type) ==
  IF py_eval(lambda_expr, FilterEvalBuiltins) = "raise"
  THEN items
  ELSE LET keep(i) ==
             LET matches == py_call(lambda_expr, Records[i], FilterEvalBuiltins) IN
               \/ filter_type = "include" /\ matches = "True"
               \/ filter_type = "exclude" /\ matches # "True"
       IN SelectSeq(items, keep)

\* _apply_computed(items, lambda_expr, filter_type)
apply_computed(items, lambda_expr, filter_type) ==
  IF py_eval(lambda_expr, FilterEvalBuiltins) = "raise"
  THEN items
  ELSE LET keep(i) ==
             LET matches == py_call(lambda_expr, Records[i], FilterEvalBuiltins) IN
               \/ filter_type = "include" /\ matches = "True"
               \/ filter_type = "exclude" /\ matches = "False"
       IN SelectSeq(items, keep)

\* _apply_single(items, filter_spec)
apply_single(items, filter_spec) ==
  IF PyEq(filter_spec.field, PyStr("computed"))
  THEN apply_computed(items, filter_spec.condition, filter_spec.filter_type)
  ELSE apply_field_match(items, filter_spec.field.v, filter_spec.condition,
                         filter_spec.filter_type)

\* the loop of apply over active_filters[k..], on the working list items
RECURSIVE apply_from(_, _, _)
apply_from(filters, k, items) ==
  IF k > Len(filters) THEN items
  ELSE IF IsDisabled(filters[k])
       THEN apply_from(filters, k + 1, items)
       ELSE apply_from(filters, k + 1, apply_single(items, filters[k]))

\* Faulty variant of apply: the loop does not skip disabled specs
RECURSIVE apply_from_all(_, _, _)
apply_from_all(filters, k, items) ==
  IF k > Len(filters) THEN items
  ELSE apply_from_all(filters, k + 1, apply_single(items, filters[k]))

apply_ignores_enabled(filters, data) == apply_from_all(filters, 1, data)

\* Faulty variant of apply: the loop returns after the first spec
apply_first_only(filters, data) ==
  IF filters = <<>> THEN data ELSE apply_single(data, filters[1])

\* Faulty variant of apply: every spec filters the input collection and the
\* results are put one after the other
RECURSIVE apply_each_on_input(_, _, _)
apply_each_on_input(filters, k, data) ==
  IF k > Len(filters) THEN <<>>
  ELSE (IF IsDisabled(filters[k]) THEN <<>> ELSE apply_single(data, filters[k]))
       \o apply_each_on_input(filters, k + 1, data)

apply_concatenating(filters, data) ==
  IF filters = <<>> THEN data ELSE apply_each_on_input(filters, 1, data)

\* apply(data) on the stack filters
apply(filters, data) == apply_from(filters, 1, data)

\* what apply(data) evaluates on the way
RECURSIVE apply_log(_, _, _)
apply_log(filters, k, items) ==
  IF k > Len(filters) THEN {}
  ELSE IF IsDisabled(filters[k])
       THEN apply_log(filters, k + 1, items)
       ELSE LET f == filters[k]
                here ==
                  IF ~PyEq(f.field, PyStr("computed")) THEN {}
                  ELSE {EvalEvent(f.condition)} \cup
                       IF py_eval(f.condition, FilterEvalBuiltins) = "raise"
                       THEN {}
                       ELSE {CallEvent(f.condition, items[j]) : j \in DOMAIN items}
            IN here \cup apply_log(filters, k + 1, apply_single(items, f))


\* str(uuid.uuid4()): an id no spec of the stack carries (ids are only ever
\* compared for equality, so the first unused one of a pool stands for it)
UuidPool == <<"u1", "u2", "u3", "u4">>

uuid4(filters) ==
  LET used == {filters[k].id : k \in DOMAIN filters}
      free == {n \in DOMAIN UuidPool : PyStr(UuidPool[n]) \notin used}
  IN PyStr(UuidPool[CHOOSE n \in free : \A m \in free : n <= m])

\* Python truth value: None, "", 0, 0.0 and [] are false
Truthy(x) ==
  CASE x.t = "none" -> FALSE
    [] x.t = "str" -> x.v # ""
    [] x.t = "int" -> x.v # 0
    [] x.t = "float" -> x.v[1] # 0
    [] x.t = "list" -> x.v # <<>>
    [] OTHER -> TRUE

\* Faulty variant of add_filter: a new id is minted whether or not the caller
\* supplied one
add_filter_always_mints(filters, filter_spec) ==
  LET filter_id == uuid4(filters)
  IN <<Append(filters, DictPut(filter_spec, "id", filter_id)), filter_id>>

\* add_filter(filter_spec): <<the new stack, the returned id>>
add_filter(filters, filter_spec) ==
  LET given == DictGet(filter_spec, "id")
      filter_id == IF Truthy(given) THEN given ELSE uuid4(filters)
  IN <<Append(filters, DictPut(filter_spec, "id", filter_id)), filter_id>>

\* Faulty variant of remove_filter: only the first spec with the id goes
remove_filter_first_only(filters, filter_id) ==
  LET hits == {k \in DOMAIN filters : PyEq(filters[k].id, filter_id)} IN
    IF hits = {} THEN filters
    ELSE LET k == CHOOSE n \in hits : \A m \in hits : n <= m IN
           [i \in 1..(Len(filters) - 1) |->
              IF i < k THEN filters[i] ELSE filters[i + 1]]

\* remove_filter(filter_id): the new stack
remove_filter(filters, filter_id) ==
  LET other(f) == ~PyEq(f.id, filter_id) IN SelectSeq(filters, other)

\* clear_filters(): the new stack
clear_filters(filters) == <<>>

\* Faulty variant of toggle_filter: an absent 'enabled' is read as False
toggle_filter_absent_is_false(filters, filter_id) ==
  LET hits == {k \in DOMAIN filters : PyEq(filters[k].id, filter_id)} IN
    IF hits = {} THEN filters
    ELSE LET k == CHOOSE n \in hits : \A m \in hits : n <= m IN
           [filters EXCEPT ![k] =
              DictPut(@, "enabled",
                      IF "enabled" \in DOMAIN @ THEN ~@["enabled"] ELSE TRUE)]

\* toggle_filter(filter_id): the new stack; the first spec with the id has
\* 'enabled' set to not f.get('enabled', True)
toggle_filter(filters, filter_id) ==
  LET hits == {k \in DOMAIN filters : PyEq(filters[k].id, filter_id)} IN
    IF hits = {} THEN filters
    ELSE LET k == CHOOSE n \in hits : \A m \in hits : n <= m IN
           [filters EXCEPT ![k] = DictPut(@, "enabled", IsDisabled(@))]

(***************************************************************************)
(* The filter specs of the model.                                          *)
(***************************************************************************)
FilterTypes == {"include", "exclude"}

\* <<field, condition>>: two literal matches and five computed conditions
Targets ==
  { <<PyStr("status"), PyStr("completed")>>,
    <<PyStr("amount"), PyNone>>,
    <<PyStr("computed"), PyStr(P_total)>>,
    <<PyStr("computed"), PyStr(P_partial)>>,
    <<PyStr("computed"), PyStr(P_syntax)>>,
    <<PyStr("computed"), PyStr(P_denied)>>,
    <<PyStr("computed"), PyStr(P_literal)>> }

FilterSpec(id, filter_type, target) ==
  [id |-> id, filter_type |-> filter_type, field |-> target[1],
   condition |-> target[2]]

IsComputed(f) == PyEq(f.field, PyStr("computed"))

DataInputs == SeqsUpTo(RecordRefs, MaxData)

IdleCall == [op |-> "none"]
EnrIdle == [pc |-> "idle"]
QIdle == [pc |-> "idle"]
SessionsIdle == [pc |-> "idle"]
DigIdle == [pc |-> "idle"]

(***************************************************************************)
(* SpecApply: apply(data) as a function of the stack and the data.  Init   *)
(* draws a stack of enabled specs (as add_filter leaves them, each with    *)
(* its id); the one step calls apply on a drawn collection (apply leaves   *)
(* the stack as it is, so a second call adds nothing).                     *)
(***************************************************************************)
StackIds == <<PyStr("f1"), PyStr("f2"), PyStr("f3"), PyStr("f4")>>

EnabledStacks ==
  { [k \in DOMAIN s |-> FilterSpec(StackIds[k], s[k][1], s[k][2])] :
      s \in SeqsUpTo(FilterTypes \X Targets, MaxStack) }

InitApply ==
  /\ active_filters \in EnabledStacks
  /\ call = IdleCall
  /\ enr = EnrIdle
  /\ q = QIdle
  /\ sessions = SessionsIdle
  /\ dig = DigIdle

\* engine.apply(data): the stack is read, not written
Apply(data) ==
  /\ call' = [op |-> "apply", data |-> data,
              ret |-> apply(active_filters, data),
              log |-> apply_log(active_filters, 1, data)]
  /\ UNCHANGED <<active_filters, enr, q, sessions, dig>>

NextApply == \E data \in DataInputs : call.op = "none" /\ Apply(data)

SpecApply == InitApply /\ [][NextApply]_vars


(***************************************************************************)
(* Claims about apply (SpecApply).                                         *)
(***************************************************************************)
Applied == call.op = "apply"

Perms(n) == {p \in [1..n -> 1..n] : \A i, j \in 1..n : p[i] = p[j] => i = j}
Permute(s, p) == [i \in 1..Len(s) |-> s[p[i]]]

\* the records a filter accepts when it is applied alone to data
AcceptedAlone(f, data) == SeqToSet(apply(<<f>>, data))

Flip(f) ==
  [f EXCEPT !.filter_type = IF @ = "include" THEN "exclude" ELSE "include"]

\* a and b split d: no record in both, every record of d in one of them
Partition(a, b, d) ==
  /\ SeqToSet(a) \cap SeqToSet(b) = {}
  /\ SeqToSet(a) \cup SeqToSet(b) = SeqToSet(d)
  /\ Len(a) + Len(b) = Len(d)

Compiles(f) == py_eval(f.condition, FilterEvalBuiltins) # "raise"
Throws(f, i) == py_call(f.condition, Records[i], FilterEvalBuiltins) = "raise"

\* C1: apply never calls, on any record, a computed condition that
\* validate_query rejects.
C1_NoRejectedConditionEvaluated ==
  Applied =>
    \A e \in call.log : e.phase = "call" => validate_query(e.code).ok

\* C2: every evaluation of a computed filter condition runs with exactly the
\* whitelisted built-ins.
C2_FilterEvalRestricted ==
  Applied => \A e \in call.log : e.builtins = SafeBuiltins

\* C3: apply returns the same list for every permutation of the stack, and
\* that list holds the input records every filter accepts when applied alone.
C3_OrderInvariance ==
  Applied =>
    LET fs == active_filters
        d == call.data
        inAll(i) == \A k \in DOMAIN fs : i \in AcceptedAlone(fs[k], d)
    IN /\ \A p \in Perms(Len(fs)) : apply(Permute(fs, p), d) = call.ret
       /\ call.ret = SelectSeq(d, inAll)

C3_Witness ==
  /\ Applied
  /\ Len(active_filters) = 2
  /\ active_filters[1].condition = PyStr(P_partial)
  /\ active_filters[2].condition = PyStr(P_syntax)
  /\ call.data = <<3, 1>>
  /\ call.ret = <<1>>

\* C4 as stated: for a single filter, the include result and the exclude
\* result on the same condition split the input (literal or computed).
C4_Complementarity ==
  (Applied /\ Len(active_filters) = 1) =>
    Partition(call.ret, apply(<<Flip(active_filters[1])>>, call.data), call.data)

\* C4 amended: the include result and the exclude result split the input
\* when the condition is a literal match, or a computed condition that
\* compiles to a function and raises on no record of the input.
C4_ComplementarityWhenTotal ==
  (/\ Applied
   /\ Len(active_filters) = 1
   /\ \/ ~IsComputed(active_filters[1])
      \/ /\ py_eval(active_filters[1].condition, FilterEvalBuiltins) = "function"
         /\ \A j \in DOMAIN call.data : ~Throws(active_filters[1], call.data[j]))
  =>
    Partition(call.ret, apply(<<Flip(active_filters[1])>>, call.data), call.data)

C4_Witness ==
  /\ Applied
  /\ Len(active_filters) = 1
  /\ active_filters[1].condition = PyStr(P_total)
  /\ active_filters[1].filter_type = "exclude"
  /\ call.data = <<1, 2>>
  /\ call.ret = <<2>>

\* C5: a single computed filter whose condition fails to compile leaves the
\* input unchanged (same records, same order), include or exclude.
C5_CompileFailureKeepsInput ==
  (/\ Applied
   /\ Len(active_filters) = 1
   /\ IsComputed(active_filters[1])
   /\ ~Compiles(active_filters[1]))
  => call.ret = call.data

C5_Witness ==
  /\ Applied
  /\ Len(active_filters) = 1
  /\ active_filters[1].condition = PyStr(P_syntax)
  /\ active_filters[1].filter_type = "exclude"
  /\ Len(call.data) = 2
  /\ call.ret = call.data

\* C6: for a single computed filter whose predicate raises on some records,
\* the result holds none of the raising records and is what apply returns on
\* the input without them: every other record is decided by the predicate
\* and the polarity.
C6_RaisingRecordsSkipped ==
  (/\ Applied
   /\ Len(active_filters) = 1
   /\ IsComputed(active_filters[1])
   /\ py_eval(active_filters[1].condition, FilterEvalBuiltins) = "function")
  =>
    LET f == active_filters[1]
        quiet(i) == ~Throws(f, i)
        decided(i) ==
          LET m == py_call(f.condition, Records[i], FilterEvalBuiltins) IN
            \/ f.filter_type = "include" /\ m = "True"
            \/ f.filter_type = "exclude" /\ m = "False"
        rest == SelectSeq(call.data, quiet)
    IN /\ \A j \in DOMAIN call.ret : quiet(call.ret[j])
       /\ call.ret = apply(<<f>>, rest)
       /\ call.ret = SelectSeq(rest, decided)

C6_Witness ==
  /\ Applied
  /\ Len(active_filters) = 1
  /\ active_filters[1].condition = PyStr(P_partial)
  /\ active_filters[1].filter_type = "exclude"
  /\ call.data = <<3, 2>>
  /\ call.ret = <<2>>

\* sub is made of elements of whole, in the order they have in whole
IsSubsequence(sub, whole) ==
  \E at \in [DOMAIN sub -> DOMAIN whole] :
    /\ \A i, j \in DOMAIN sub : i < j => at[i] < at[j]
    /\ \A i \in DOMAIN sub : whole[at[i]] = sub[i]

Held(i, field) ==
  IF field \in DOMAIN Records[i] THEN Records[i][field] ELSE PyNone
\* two values are equal: both null, or of one type and the same
SameValue(a, b) ==
  IF a.t = "none" \/ b.t = "none" THEN a.t = b.t
  ELSE a.t = b.t /\ a.v = b.v

\* C25: a single spec whose field is not "computed" keeps, as include,
\* exactly the records whose value under the field equals the condition
\* and, as exclude, exactly those whose value does not; a record lacking
\* the field counts as holding null.
C25_LiteralMatch ==
  (Applied /\ Len(active_filters) = 1 /\ ~IsComputed(active_filters[1])) =>
    LET f == active_filters[1]
        equal(i) == SameValue(Held(i, f.field.v), f.condition)
        differs(i) == ~SameValue(Held(i, f.field.v), f.condition)
    IN /\ f.filter_type = "include" => call.ret = SelectSeq(call.data, equal)
       /\ f.filter_type = "exclude" => call.ret = SelectSeq(call.data, differs)

C25_Witness ==
  /\ Applied
  /\ Len(active_filters) = 1
  /\ active_filters[1].field = PyStr("amount")
  /\ active_filters[1].condition = PyNone
  /\ active_filters[1].filter_type = "include"
  /\ "amount" \notin DOMAIN Records[3]
  /\ call.data = <<1, 3>>
  /\ call.ret = <<3>>

\* C30: a computed spec whose condition compiles to something that is not a
\* function (a plain literal) is treated like one that fails to compile:
\* apply returns every record it was given, as include and as exclude.
C30_NonCallableKeepsAll ==
  (Applied /\ Len(active_filters) = 1 /\ IsComputed(active_filters[1])
     /\ py_eval(active_filters[1].condition, FilterEvalBuiltins) = "value")
  => call.ret = call.data


(***************************************************************************)
(* SpecStack: one FilterEngine from construction on, under any sequence of *)
(* add_filter / remove_filter / toggle_filter / clear_filters / apply.     *)
(* call holds the last call, its arguments and what it returned.           *)
(***************************************************************************)
ClientIds == {PyStr("a")}
ArgIds == ClientIds \cup {PyStr(UuidPool[n]) : n \in 1..3}

\* what a caller passes to add_filter: a body, with or without 'enabled',
\* and without 'id', with an id or with 'id': None
StackBodies ==
  { [filter_type |-> "include", field |-> PyStr("status"),
     condition |-> PyStr("completed")],
    [filter_type |-> "exclude", field |-> PyStr("computed"),
     condition |-> PyStr(P_partial)],
    [filter_type |-> "exclude", field |-> PyStr("amount"),
     condition |-> PyNone] }

AddInputs ==
  LET flagged == {b \in StackBodies : b.field # PyStr("amount")}
      withEnabled ==
        StackBodies \cup
        {DictPut(b, "enabled", e) : b \in flagged, e \in BOOLEAN}
  IN withEnabled \cup
     {DictPut(b, "id", i) : b \in withEnabled, i \in ClientIds} \cup
     {DictPut(b, "id", PyNone) : b \in flagged}

\* the collection apply is called on in SpecStack
SampleInputs == {<<1, 2, 3>>}

InitStack ==
  /\ active_filters = <<>>
  /\ call = IdleCall
  /\ enr = EnrIdle
  /\ q = QIdle
  /\ sessions = SessionsIdle
  /\ dig = DigIdle

AddFilter(filter_spec) ==
  /\ Len(active_filters) < MaxFilters
  /\ active_filters' = add_filter(active_filters, filter_spec)[1]
  /\ call' = [op |-> "add_filter", arg |-> filter_spec,
              ret |-> add_filter(active_filters, filter_spec)[2]]
  /\ UNCHANGED <<enr, q, sessions, dig>>

RemoveFilter(filter_id) ==
  /\ active_filters' = remove_filter(active_filters, filter_id)
  /\ call' = [op |-> "remove_filter", arg |-> filter_id]
  /\ UNCHANGED <<enr, q, sessions, dig>>

ClearFilters ==
  /\ active_filters' = clear_filters(active_filters)
  /\ call' = [op |-> "clear_filters"]
  /\ UNCHANGED <<enr, q, sessions, dig>>

ToggleFilter(filter_id) ==
  /\ active_filters' = toggle_filter(active_filters, filter_id)
  /\ call' = [op |-> "toggle_filter", arg |-> filter_id]
  /\ UNCHANGED <<enr, q, sessions, dig>>

NextStack ==
  \/ \E filter_spec \in AddInputs : AddFilter(filter_spec)
  \/ \E filter_id \in ArgIds : RemoveFilter(filter_id)
  \/ ClearFilters
  \/ \E filter_id \in ArgIds : ToggleFilter(filter_id)
  \/ \E data \in SampleInputs : Apply(data)

SpecStack == InitStack /\ [][NextStack]_vars

(***************************************************************************)
(* Claims about the stack (SpecStack).                                     *)
(***************************************************************************)
RemoveAt(s, k) == [i \in 1..(Len(s) - 1) |-> IF i < k THEN s[i] ELSE s[i + 1]]

\* C7: after any sequence of stack operations, what apply returned is what
\* apply returns with any one disabled spec taken out of the stack, and the
\* same holds for every input collection.
C7_DisabledIsAbsent ==
  Applied =>
    \A k \in DOMAIN active_filters :
      IsDisabled(active_filters[k]) =>
        /\ apply(RemoveAt(active_filters, k), call.data) = call.ret
        /\ \A d \in DataInputs :
             apply(RemoveAt(active_filters, k), d) = apply(active_filters, d)

C7_Witness ==
  /\ Applied
  /\ Len(active_filters) = 2
  /\ active_filters[1].field = PyStr("status")
  /\ "id" \in DOMAIN active_filters[1]
  /\ IsDisabled(active_filters[1])
  /\ ~IsDisabled(active_filters[2])
  /\ active_filters[2].condition = PyStr(P_partial)
  /\ call.data = <<1, 2, 3>>
  /\ call.ret = <<2>>

\* the ids of a stack, the spec a stack ends with
IdsOf(filters) == {filters[k].id : k \in DOMAIN filters}
Last(filters) == filters[Len(filters)]
\* the spec carries an id: the key is there and its value is not None
CarriesId(filter_spec) ==
  "id" \in DOMAIN filter_spec /\ filter_spec["id"].t # "none"

\* C15: add_filter returns and stores the caller's id when the spec carries
\* one; otherwise it mints an id that no spec of the stack has; either way
\* the spec is appended at the end of the stack, the specs before it stay
\* as they were, and the id returned is the id stored on the new spec.
C15_AddFilterId ==
  [][call'.op = "add_filter" =>
       /\ Len(active_filters') = Len(active_filters) + 1
       /\ \A k \in DOMAIN active_filters : active_filters'[k] = active_filters[k]
       /\ DOMAIN Last(active_filters') = DOMAIN call'.arg \cup {"id"}
       /\ \A key \in DOMAIN call'.arg \ {"id"} :
            Last(active_filters')[key] = call'.arg[key]
       /\ Last(active_filters').id = call'.ret
       /\ IF CarriesId(call'.arg)
          THEN call'.ret = call'.arg["id"]
          ELSE call'.ret \notin IdsOf(active_filters)]_vars

C15_Witness ==
  /\ call.op = "add_filter"
  /\ ~CarriesId(call.arg)
  /\ Len(active_filters) = 2
  /\ active_filters[1].id = PyStr("u1")
  /\ Last(active_filters).id = call.ret
  /\ call.ret = PyStr("u2")

\* C16: after any sequence of add_filter / remove_filter / toggle_filter /
\* clear_filters calls, with caller-supplied ids too, no two specs of the
\* stack have the same id.
C16_IdsUnique ==
  \A i, j \in DOMAIN active_filters :
    i # j => active_filters[i].id # active_filters[j].id

\* the effective enabled state of a spec: an absent flag counts as true
EffectiveEnabled(filter_spec) ==
  IF "enabled" \in DOMAIN filter_spec THEN filter_spec["enabled"] ELSE TRUE

\* C17: toggle_filter(id) sets 'enabled' of the spec with that id to the
\* negation of its effective value (an absent flag counts as true) and
\* changes nothing else of it; no other spec changes, and nothing changes
\* when no spec has the id; a second toggle of the same id brings every
\* spec back to the effective enabled state it had.
C17_ToggleFilter ==
  [][call'.op = "toggle_filter" =>
       LET hits == {k \in DOMAIN active_filters :
                      active_filters[k].id = call'.arg}
           twice == toggle_filter(active_filters', call'.arg)
       IN /\ Len(active_filters') = Len(active_filters)
          /\ hits = {} => active_filters' = active_filters
          /\ hits # {} =>
               \E k \in hits :
                 /\ DOMAIN active_filters'[k] = DOMAIN active_filters[k] \cup {"enabled"}
                 /\ active_filters'[k]["enabled"] = ~EffectiveEnabled(active_filters[k])
                 /\ \A key \in DOMAIN active_filters[k] \ {"enabled"} :
                      active_filters'[k][key] = active_filters[k][key]
                 /\ \A j \in DOMAIN active_filters \ {k} :
                      active_filters'[j] = active_filters[j]
          /\ Len(twice) = Len(active_filters)
          /\ \A j \in DOMAIN active_filters :
               EffectiveEnabled(twice[j]) = EffectiveEnabled(active_filters[j])]_vars

C17_Witness ==
  /\ call.op = "toggle_filter"
  /\ Len(active_filters) = 2
  /\ active_filters[1].id = call.arg
  /\ "enabled" \in DOMAIN active_filters[1]
  /\ ~active_filters[1]["enabled"]
  /\ "enabled" \notin DOMAIN active_filters[2]
  /\ active_filters[2].id # call.arg

\* the positions of the specs of a stack whose id is not the given one, and
\* the n-th of them
Others(filters, filter_id) == {k \in DOMAIN filters : filters[k].id # filter_id}
NthOf(S, n) == CHOOSE k \in S : Cardinality({m \in S : m < k}) = n - 1
\* a spec without its flag
Unflagged(f) == [key \in DOMAIN f \ {"enabled"} |-> f[key]]

MaxSessionFilters == 1

Engines == {1, 2}

\* the spec objects of the caller, at the references 1 and 2
CallerSpecs ==
  << [filter_type |-> "exclude", field |-> PyStr("computed"),
      condition |-> PyStr(P_partial)],
     [filter_type |-> "include", field |-> PyStr("status"),
      condition |-> PyStr("completed"), id |-> PyStr("a")] >>

\* the specs a stack of references stands for
Deref(heap, stack) == [k \in DOMAIN stack |-> heap[stack[k]]]

\* a reference no object has yet
NewRef(heap) ==
  CHOOSE r \in 1..(Cardinality(DOMAIN heap) + 1) : r \notin DOMAIN heap

\* Faulty variant of spec_with_id: the id is written into the caller's object,
\* which is what the stack then holds
spec_with_id_in_place(heap, ref, filter_id) ==
  [heap |-> [heap EXCEPT ![ref] = DictPut(@, "id", filter_id)], ref |-> ref]

\* filter_spec = {**filter_spec, 'id': filter_id}: a new dict object
spec_with_id(heap, ref, filter_id) ==
  LET new == NewRef(heap) IN
    [heap |-> [r \in DOMAIN heap \cup {new} |->
                 IF r = new THEN DictPut(heap[ref], "id", filter_id) ELSE heap[r]],
     ref |-> new]

\* the objects still referenced: the caller's and those of the stacks
Collect(heap, stacks) ==
  LET live == DOMAIN CallerSpecs \cup
              UNION {SeqToSet(stacks[e]) : e \in Engines}
  IN [r \in DOMAIN heap \cap live |-> heap[r]]

InitSessions ==
  /\ active_filters = <<>>
  /\ call = IdleCall
  /\ enr = EnrIdle
  /\ q = QIdle
  /\ dig = DigIdle
  /\ sessions = [pc |-> "running", heap |-> CallerSpecs,
                 stacks |-> [e \in Engines |-> <<>>],
                 solo |-> [e \in Engines |-> <<>>],
                 last |-> [op |-> "none"]]

\* engine e: add_filter(filter_spec), filter_spec the caller's object at ref
SessionAdd(e, ref) ==
  /\ Len(sessions.stacks[e]) < MaxSessionFilters
  /\ LET mine == Deref(sessions.heap, sessions.stacks[e])
         filter_id == add_filter(mine, sessions.heap[ref])[2]
         stored == spec_with_id(sessions.heap, ref, filter_id)
     IN sessions' =
          [sessions EXCEPT
             !.heap = stored.heap,
             !.stacks[e] = Append(@, stored.ref),
             !.solo[e] = add_filter(@, CallerSpecs[ref])[1],
             !.last = [op |-> "add_filter"]]
  /\ UNCHANGED <<active_filters, call, enr, q, dig>>

\* engine e: remove_filter(filter_id)
SessionRemove(e, filter_id) ==
  /\ LET other(r) == ~PyEq(sessions.heap[r].id, filter_id)
         stacks == [sessions.stacks EXCEPT ![e] = SelectSeq(@, other)]
     IN sessions' =
          [sessions EXCEPT
             !.heap = Collect(sessions.heap, stacks),
             !.stacks = stacks,
             !.solo[e] = remove_filter(@, filter_id),
             !.last = [op |-> "remove_filter"]]
  /\ UNCHANGED <<active_filters, call, enr, q, dig>>

\* engine e: clear_filters()
SessionClear(e) ==
  /\ LET stacks == [sessions.stacks EXCEPT ![e] = <<>>]
     IN sessions' =
          [sessions EXCEPT
             !.heap = Collect(sessions.heap, stacks),
             !.stacks = stacks,
             !.solo[e] = clear_filters(@),
             !.last = [op |-> "clear_filters"]]
  /\ UNCHANGED <<active_filters, call, enr, q, dig>>

\* engine e: toggle_filter(filter_id), which writes f['enabled'] on the
\* first object of the stack with that id
SessionToggle(e, filter_id) ==
  /\ LET stack == sessions.stacks[e]
         hits == {k \in DOMAIN stack : PyEq(sessions.heap[stack[k]].id, filter_id)}
         heap == IF hits = {} THEN sessions.heap
                 ELSE LET k == CHOOSE n \in hits : \A m \in hits : n <= m IN
                        [sessions.heap EXCEPT
                           ![stack[k]] = DictPut(@, "enabled", IsDisabled(@))]
     IN sessions' =
          [sessions EXCEPT
             !.heap = heap,
             !.solo[e] = toggle_filter(@, filter_id),
             !.last = [op |-> "toggle_filter"]]
  /\ UNCHANGED <<active_filters, call, enr, q, dig>>

\* engine e: apply(data)
SessionApply(e, data) ==
  /\ sessions' =
       [sessions EXCEPT
          !.last = [op |-> "apply", engine |-> e, data |-> data,
                    ret |-> apply(Deref(sessions.heap, sessions.stacks[e]), data)]]
  /\ UNCHANGED <<active_filters, call, enr, q, dig>>

NextSessions ==
  \E e \in Engines :
    \/ \E ref \in DOMAIN CallerSpecs : SessionAdd(e, ref)
    \/ \E filter_id \in ClientIds \cup {PyStr(UuidPool[1])} : SessionRemove(e, filter_id)
    \/ SessionClear(e)
    \/ \E filter_id \in ClientIds \cup {PyStr(UuidPool[1])} : SessionToggle(e, filter_id)
    \/ \E data \in SampleInputs : SessionApply(e, data)

SpecSessions == InitSessions /\ [][NextSessions]_vars

\* C23: under any interleaving of the calls on two engines, also when both
\* were given the same spec object, each engine's stack is the stack it has
\* when it is given its own calls only, and so is what its apply returns.
C23_SessionIsolation ==
  sessions.pc = "running" =>
    /\ \A e \in Engines :
         Deref(sessions.heap, sessions.stacks[e]) = sessions.solo[e]
    /\ sessions.last.op = "apply" =>
         sessions.last.ret = apply(sessions.solo[sessions.last.engine],
                                   sessions.last.data)
    /\ \A ref \in DOMAIN CallerSpecs : sessions.heap[ref] = CallerSpecs[ref]

C23_Witness ==
  /\ sessions.pc = "running"
  /\ sessions.last.op = "apply"
  /\ sessions.last.engine = 2
  /\ Len(sessions.stacks[1]) = 1
  /\ Len(sessions.stacks[2]) = 1
  /\ sessions.stacks[1] # sessions.stacks[2]
  /\ sessions.heap[sessions.stacks[1][1]].condition = PyStr(P_partial)
  /\ sessions.heap[sessions.stacks[2][1]].condition = PyStr(P_partial)
  /\ IsDisabled(sessions.heap[sessions.stacks[1][1]])
  /\ ~IsDisabled(sessions.heap[sessions.stacks[2][1]])
  /\ sessions.last.data = <<1, 2, 3>>
  /\ sessions.last.ret = <<2>>


(***************************************************************************)
(* hierarchical_filter_engine.py: enrich                                   *)
(***************************************************************************)
RECURSIVE SumSeq(_)
SumSeq(s) == IF s = <<>> THEN 0 ELSE Head(s) + SumSeq(Tail(s))

MaxSeq(s) == CHOOSE x \in SeqToSet(s) : \A y \in SeqToSet(s) : y <= x
MinSeq(s) == CHOOSE x \in SeqToSet(s) : \A y \in SeqToSet(s) : x <= y

\* Faulty variant of ChildValues: a child whose value is None is kept
ChildValues_keeping_none(children, src) ==
  LET present(c) == src \in DOMAIN c
      kept == SelectSeq(children, present)
  IN [i \in DOMAIN kept |-> kept[i][src].v]

\* [c[src] for c in children if src in c and c[src] is not None], as ints
ChildValues(children, src) ==
  LET present(c) == src \in DOMAIN c /\ c[src].t # "none"
      kept == SelectSeq(children, present)
  IN [i \in DOMAIN kept |-> kept[i][src].v]

\* Faulty variant of Aggregate: 'last' takes values[0]
Aggregate_last_is_first(fn, values) ==
  IF fn = "count" THEN PyInt(Len(values))
  ELSE IF values = <<>> THEN PyNone
  ELSE CASE fn = "max" -> PyInt(MaxSeq(values))
         [] fn = "min" -> PyInt(MinSeq(values))
         [] fn = "sum" -> PyInt(SumSeq(values))
         [] fn = "mean" -> PyFloat(SumSeq(values), Len(values))
         [] fn = "first" -> PyInt(values[1])
         [] fn = "last" -> PyInt(values[1])
         [] OTHER -> PyNone

\* Faulty variant of Aggregate: an unrecognized fn counts the values
Aggregate_unknown_counts(fn, values) ==
  IF fn = "count" THEN PyInt(Len(values))
  ELSE IF values = <<>> THEN PyNone
  ELSE CASE fn = "max" -> PyInt(MaxSeq(values))
         [] fn = "min" -> PyInt(MinSeq(values))
         [] fn = "sum" -> PyInt(SumSeq(values))
         [] fn = "mean" -> PyFloat(SumSeq(values), Len(values))
         [] fn = "first" -> PyInt(values[1])
         [] fn = "last" -> PyInt(values[Len(values)])
         [] OTHER -> PyInt(Len(values))

\* the value enrich stores under spec['name'] for the value list
Aggregate(fn, values) ==
  IF fn = "count" THEN PyInt(Len(values))
  ELSE IF values = <<>> THEN PyNone
  ELSE CASE fn = "max" -> PyInt(MaxSeq(values))
         [] fn = "min" -> PyInt(MinSeq(values))
         [] fn = "sum" -> PyInt(SumSeq(values))
         [] fn = "mean" -> PyFloat(SumSeq(values), Len(values))
         [] fn = "first" -> PyInt(values[1])
         [] fn = "last" -> PyInt(values[Len(values)])
         [] OTHER -> PyNone

\* the loop over agg_specs[k..] for one entity whose child list is children
RECURSIVE enrich_specs(_, _, _, _)
enrich_specs(entity, children, agg_specs, k) ==
  IF k > Len(agg_specs) THEN entity
  ELSE LET spec == agg_specs[k]
           values == ChildValues(children, spec.source_field)
       IN enrich_specs(DictPut(entity, spec.name, Aggregate(spec.fn, values)),
                       children, agg_specs, k + 1)

\* Faulty variant of enrich_entity: a field the entity already has is kept
enrich_entity_keeping_fields(entity, child_field, agg_specs) ==
  LET got == DictGet(entity, child_field)
      children == IF Truthy(got) THEN got ELSE PyList(<<>>)
  IN IF agg_specs = <<>> THEN [entity |-> entity, raised |-> FALSE]
     ELSE IF children.t # "list" THEN [entity |-> entity, raised |-> TRUE]
     ELSE [entity |->
             LET new == enrich_specs(entity, children.v, agg_specs, 1) IN
               [key \in DOMAIN new |->
                  IF key \in DOMAIN entity THEN entity[key] ELSE new[key]],
           raised |-> FALSE]

\* One pass of the outer loop: [entity, raised].  children is
\* entity.get(child_field) or []; iterating it raises TypeError when it is
\* not a list (the entity is then left as it was: nothing was written yet).
enrich_entity(entity, child_field, agg_specs) ==
  LET got == DictGet(entity, child_field)
      children == IF Truthy(got) THEN got ELSE PyList(<<>>)
  IN IF agg_specs = <<>> THEN [entity |-> entity, raised |-> FALSE]
     ELSE IF children.t # "list" THEN [entity |-> entity, raised |-> TRUE]
     ELSE [entity |-> enrich_specs(entity, children.v, agg_specs, 1),
           raised |-> FALSE]

\* enrich(entities, child_field, agg_specs) from the k-th entity on, on the
\* heap of entity objects: [heap, raised].  entities is a list of
\* references; the entities are mutated in place, up to the one that raises.
RECURSIVE enrich_from(_, _, _, _, _)
enrich_from(heap, entities, child_field, agg_specs, k) ==
  IF k > Len(entities) THEN [heap |-> heap, raised |-> FALSE]
  ELSE LET r == enrich_entity(heap[entities[k]], child_field, agg_specs) IN
         IF r.raised THEN [heap |-> heap, raised |-> TRUE]
         ELSE enrich_from([heap EXCEPT ![entities[k]] = r.entity], entities,
                          child_field, agg_specs, k + 1)

\* enrich(entities, child_field, agg_specs): the heap it leaves, whether it
\* raised, and the list it returns ("return entities")
enrich(heap, entities, child_field, agg_specs) ==
  LET r == enrich_from(heap, entities, child_field, agg_specs, 1) IN
    [heap |-> r.heap, raised |-> r.raised, entities |-> entities]

(***************************************************************************)
(* SpecEnrich: enrich called twice with the same arguments.  Init draws    *)
(* the entity collection and the AggregateSpecs.                           *)
(***************************************************************************)
MaxEntities == 2
MaxAggSpecs == 2

\* the entity objects of the caller
EntityHeap ==
  << [id |-> PyInt(1),
      data |-> PyList(<<[V |-> PyInt(10)], [V |-> PyInt(20)]>>)],
     [id |-> PyInt(2), data |-> PyList(<<>>)],
     [id |-> PyInt(3),
      data |-> PyList(<<[V |-> PyNone], [W |-> PyInt(5)], [V |-> PyInt(7)]>>)],
     [id |-> PyInt(4), agg |-> PyInt(99)],
     [id |-> PyInt(5), data |-> PyNone] >>

AggFns == {"max", "min", "sum", "count", "mean", "first", "last", "median"}

AggSpec(name, fn) == [name |-> name, source_field |-> "V", fn |-> fn]

AggSpecs ==
  {AggSpec("agg", fn) : fn \in AggFns} \cup
  {AggSpec("agg2", fn) : fn \in {"count", "sum"}} \cup
  {AggSpec("data", fn) : fn \in {"count"}}

InitEnrich ==
  /\ active_filters = <<>>
  /\ call = IdleCall
  /\ q = QIdle
  /\ sessions = SessionsIdle
  /\ dig = DigIdle
  /\ \E entities \in SeqsUpTo(DOMAIN EntityHeap, MaxEntities),
        agg_specs \in SeqsUpTo(AggSpecs, MaxAggSpecs) :
       enr = [pc |-> "start", heap |-> EntityHeap, entities |-> entities,
              child_field |-> "data", agg_specs |-> agg_specs]

\* the first call
EnrichFirst ==
  /\ enr.pc = "start"
  /\ LET r == enrich(enr.heap, enr.entities, enr.child_field, enr.agg_specs) IN
       enr' = [enr EXCEPT !.pc = "once", !.heap = r.heap] @@
              [raised |-> r.raised, first |-> r.heap,
               ret |-> IF r.raised THEN <<>> ELSE r.entities]
  /\ UNCHANGED <<active_filters, call, q, sessions, dig>>

\* the second call, on the collection the first call returned
EnrichAgain ==
  /\ enr.pc = "once"
  /\ ~enr.raised
  /\ LET r == enrich(enr.heap, enr.entities, enr.child_field, enr.agg_specs) IN
       enr' = [enr EXCEPT !.pc = "twice", !.heap = r.heap, !.raised = r.raised]
  /\ UNCHANGED <<active_filters, call, q, sessions, dig>>

NextEnrich == EnrichFirst \/ EnrichAgain

SpecEnrich == InitEnrich /\ [][NextEnrich]_vars

\* C8: the second of two enrich calls with the same arguments completes and
\* leaves under every aggregate name the value the first call wrote.
C8_EnrichIdempotent ==
  enr.pc = "twice" =>
    /\ ~enr.raised
    /\ \A k \in DOMAIN enr.entities, j \in DOMAIN enr.agg_specs :
         enr.heap[enr.entities[k]][enr.agg_specs[j].name] =
           enr.first[enr.entities[k]][enr.agg_specs[j].name]

\* the first call has returned
EnrichedOnce == enr.pc = "once" /\ ~enr.raised
\* the children the caller's entity had, none when the child collection is
\* empty, absent or None
OrigChildren(e) ==
  IF "data" \in DOMAIN EntityHeap[e] /\ EntityHeap[e]["data"].t = "list"
  THEN EntityHeap[e]["data"].v ELSE <<>>
\* the positions of the children in which source_field is present and
\* non-null, and their values in the children's order
PresentAt(children, src) ==
  {i \in DOMAIN children : src \in DOMAIN children[i] /\ children[i][src].t # "none"}
PresentValues(children, src) ==
  LET S == PresentAt(children, src) IN
    [n \in 1..Cardinality(S) |->
       children[CHOOSE i \in S : Cardinality({m \in S : m < i}) = n - 1][src].v]
\* the j-th spec is the last one of the list writing its name
LastWriter(j) ==
  \A j2 \in DOMAIN enr.agg_specs :
    j2 > j => enr.agg_specs[j2].name # enr.agg_specs[j].name
\* what the first call left under the name of the j-th spec on the k-th entity
Written(k, j) == enr.first[enr.entities[k]][enr.agg_specs[j].name]

\* C18: the count aggregate is the number of children in which source_field
\* is present and non-null, not the number of children; it is 0, not null,
\* when there is no such child: an empty, absent or null child collection
\* included.
C18_CountPresentNonNull ==
  EnrichedOnce =>
    \A k \in DOMAIN enr.entities, j \in DOMAIN enr.agg_specs :
      (enr.agg_specs[j].fn = "count" /\ LastWriter(j)) =>
        /\ Written(k, j).t = "int"
        /\ Written(k, j).v =
             Cardinality(PresentAt(OrigChildren(enr.entities[k]),
                                   enr.agg_specs[j].source_field))

C18_Witness ==
  /\ EnrichedOnce
  /\ enr.entities = <<3, 5>>
  /\ enr.agg_specs = <<AggSpec("agg", "count")>>
  /\ Len(OrigChildren(3)) = 3
  /\ enr.first[3]["agg"] = PyInt(1)
  /\ enr.first[5]["agg"] = PyInt(0)

RECURSIVE SumUpTo(_, _)
SumUpTo(s, n) == IF n = 0 THEN 0 ELSE SumUpTo(s, n - 1) + s[n]

\* C19: for max, min, sum, mean, first and last, enrich writes null when no
\* child has a present non-null source_field (so mean divides by no zero),
\* and otherwise the maximum, minimum, sum, arithmetic mean, first or last
\* of the present non-null values in the children's order.
C19_AggregateValues ==
  EnrichedOnce =>
    \A k \in DOMAIN enr.entities, j \in DOMAIN enr.agg_specs :
      (enr.agg_specs[j].fn \in {"max", "min", "sum", "mean", "first", "last"}
         /\ LastWriter(j)) =>
        LET vals == PresentValues(OrigChildren(enr.entities[k]),
                                  enr.agg_specs[j].source_field)
            fn == enr.agg_specs[j].fn
            w == Written(k, j)
        IN IF vals = <<>> THEN w.t = "none"
           ELSE CASE fn = "max" ->
                       /\ w.t = "int"
                       /\ \E i \in DOMAIN vals : vals[i] = w.v
                       /\ \A i \in DOMAIN vals : vals[i] <= w.v
                  [] fn = "min" ->
                       /\ w.t = "int"
                       /\ \E i \in DOMAIN vals : vals[i] = w.v
                       /\ \A i \in DOMAIN vals : vals[i] >= w.v
                  [] fn = "sum" -> w.t = "int" /\ w.v = SumUpTo(vals, Len(vals))
                  [] fn = "mean" ->
                       /\ w.t = "float"
                       /\ w.v[2] > 0
                       /\ w.v[1] * Len(vals) = w.v[2] * SumUpTo(vals, Len(vals))
                  [] fn = "first" -> w.t = "int" /\ w.v = vals[1]
                  [] fn = "last" -> w.t = "int" /\ w.v = vals[Len(vals)]

C19_Witness ==
  /\ EnrichedOnce
  /\ enr.entities = <<1, 2>>
  /\ enr.agg_specs = <<AggSpec("agg", "last"), AggSpec("agg2", "sum")>>
  /\ enr.first[1]["agg"] = PyInt(20)
  /\ enr.first[1]["agg2"] = PyInt(30)
  /\ enr.first[2]["agg"] = PyNone
  /\ enr.first[2]["agg2"] = PyNone

\* the functions enrich recognizes
KnownFns == {"count", "max", "min", "sum", "mean", "first", "last"}

\* C20: a spec with an unrecognized fn makes enrich write null under its
\* name on every entity and raise nothing; everything else of every entity
\* is what enrich leaves when that spec is taken out of the list.
C20_UnknownFnIsNull ==
  enr.pc = "once" =>
    \A j \in DOMAIN enr.agg_specs :
      enr.agg_specs[j].fn \notin KnownFns =>
        LET name == enr.agg_specs[j].name
            without == enrich(EntityHeap, enr.entities, enr.child_field,
                              RemoveAt(enr.agg_specs, j))
        IN /\ enr.raised = without.raised
           /\ ~enr.raised =>
                \A k \in DOMAIN enr.entities :
                  LET got == enr.first[enr.entities[k]]
                      ref == without.heap[enr.entities[k]]
                  IN /\ DOMAIN got = DOMAIN ref \cup {name}
                     /\ \A key \in DOMAIN ref \ {name} : got[key] = ref[key]
                     /\ IF LastWriter(j) THEN got[name].t = "none"
                        ELSE got[name] = ref[name]

C20_Witness ==
  /\ EnrichedOnce
  /\ enr.entities = <<1, 3>>
  /\ enr.agg_specs = <<AggSpec("agg", "median"), AggSpec("agg2", "sum")>>
  /\ enr.first[1]["agg"] = PyNone
  /\ enr.first[3]["agg"] = PyNone
  /\ enr.first[1]["agg2"] = PyInt(30)
  /\ enr.first[3]["agg2"] = PyInt(7)

\* the names the AggregateSpecs write
AggNames == {enr.agg_specs[j].name : j \in DOMAIN enr.agg_specs}

\* C21: enrich returns the collection it was given, the same entities in
\* the same order; on an entity it writes only the fields the
\* AggregateSpecs name, replacing whatever was stored under such a name by
\* the newly computed value; every other field of every entity, the child
\* records among them, is as it was.
C21_EnrichFrame ==
  enr.pc = "once" =>
    /\ ~enr.raised => enr.ret = enr.entities
    /\ \A e \in DOMAIN EntityHeap :
         /\ DOMAIN enr.first[e] \subseteq DOMAIN EntityHeap[e] \cup AggNames
         /\ \A key \in DOMAIN EntityHeap[e] \ AggNames :
              key \in DOMAIN enr.first[e] /\ enr.first[e][key] = EntityHeap[e][key]
         /\ (\A k \in DOMAIN enr.entities : enr.entities[k] # e) =>
              enr.first[e] = EntityHeap[e]
    /\ ~enr.raised =>
         \A k \in DOMAIN enr.entities, j \in DOMAIN enr.agg_specs :
           LastWriter(j) =>
             LET new == Aggregate(enr.agg_specs[j].fn,
                                  PresentValues(OrigChildren(enr.entities[k]),
                                                enr.agg_specs[j].source_field))
             IN /\ enr.agg_specs[j].name \in DOMAIN enr.first[enr.entities[k]]
                /\ Written(k, j).t = new.t
                /\ Written(k, j).v = new.v

C21_Witness ==
  /\ EnrichedOnce
  /\ enr.entities = <<4, 1>>
  /\ enr.ret = <<4, 1>>
  /\ enr.agg_specs = <<AggSpec("agg", "count")>>
  /\ EntityHeap[4]["agg"] = PyInt(99)
  /\ enr.first[4]["agg"] = PyInt(0)
  /\ enr.first[1]["agg"] = PyInt(2)
  /\ enr.first[1]["data"] = EntityHeap[1]["data"]


(***************************************************************************)
(* query_engine.py: execute_query and execute_fig_code                     *)
(***************************************************************************)
DEFAULT_MAX_ROWS == 1000

\* a bool and a dict of Python
PyBool(b) == [t |-> "bool", v |-> b]
PyDict(d) == [t |-> "dict", v |-> d]

\* a DataFrame with the given rows; a Series with the given values
PyFrame(rows) == [t |-> "DataFrame", v |-> rows]
PySeries(values) == [t |-> "Series", v |-> values]

EmptyDict == <<>>

Head_n(rows, n) == SubSeq(rows, 1, IF Len(rows) < n THEN Len(rows) ELSE n)

\* the names of the namespace each function builds, next to the built-ins
QueryNamespace == {"pd", "np", "scipy_stats", "df"}
FigNamespace == {"df", "result", "px", "go", "pd", "np", "scipy_stats"}

\* exec(code, safe_namespace): [raised, binds, hangs]; binds holds the names
\* the snippet assigned, hangs says that exec never returns
exec_snippet(code, namespace, builtins, df) ==
  LET src == Source(code.v)
      raise == [raised |-> TRUE, binds |-> EmptyDict, hangs |-> FALSE]
      done(binds) == [raised |-> FALSE, binds |-> binds, hangs |-> FALSE]
  IN IF ~src.parses THEN raise
     ELSE IF ~(src.names \subseteq (namespace \cup builtins)) THEN raise
     ELSE CASE code.v = Q_frame -> done([result |-> PyFrame(Head_n(df.v, 2))])
            [] code.v = Q_all -> done([result |-> df])
            [] code.v = Q_async -> done([result |-> PyInt(1)])
            [] code.v = Q_while ->
                 [raised |-> FALSE, binds |-> EmptyDict, hangs |-> TRUE]
            [] code.v = Q_str -> done([result |-> PyStr("abc")])
            [] code.v = Q_float -> done([result |-> PyFloat(3, 2)])
            [] code.v = Q_bool -> done([result |-> PyBool(TRUE)])
            [] code.v = Q_list -> done([result |-> PyList(<<PyInt(1), PyInt(2)>>)])
            [] code.v = Q_dict -> done([result |-> PyDict([a |-> PyInt(1)])])
            [] code.v = Q_attr_call -> done([result |-> PyInt(1)])
            [] code.v = Q_series ->
                 done([result |-> PySeries(<<PyInt(150), PyInt(50), PyNone>>)])
            [] code.v = Q_keyerror -> raise
            [] code.v = Q_noresult -> done([x |-> PyInt(1)])
            [] code.v = Q_int -> done([result |-> PyInt(42)])
            [] code.v = Q_tuple -> done([result |-> [t |-> "tuple", v |-> <<1, 2>>]])
            [] code.v = Q_def -> done([result |-> PyInt(1)])
            [] code.v = Q_fig -> done([fig |-> [t |-> "Figure", v |-> "bar"]])
            [] OTHER -> raise

Failure(kind, detail) == [success |-> FALSE, error |-> <<kind, detail>>]

\* Faulty variant of coerce_result: truncated only when rows were cut off
coerce_result_truncated_when_cut(result, max_rows) ==
  IF result.t = "none"
  THEN Failure("Query must assign result to a variable named \"result\"", "")
  ELSE IF result.t = "DataFrame"
  THEN [success |-> TRUE, data |-> Head_n(result.v, max_rows),
        columns |-> <<"id", "status", "amount">>,
        row_count |-> Len(Head_n(result.v, max_rows)),
        truncated |-> Len(result.v) > max_rows]
  ELSE IF result.t = "Series"
  THEN LET notna(x) == x.t # "none"
           kept == SelectSeq(result.v, notna)
       IN [success |-> TRUE, data |-> Head_n(kept, max_rows),
           columns |-> <<"amount">>,
           row_count |-> Len(Head_n(kept, max_rows)),
           truncated |-> Len(kept) > max_rows]
  ELSE IF result.t \in {"list", "dict", "str", "int", "float", "bool"}
  THEN [success |-> TRUE, data |-> result, type |-> result.t]
  ELSE Failure("Unsupported result type", result.t)

\* Faulty variant of coerce_result: an unset or unsupported result is
\* reported like an exception of the snippet
coerce_result_as_exception(result, max_rows) ==
  IF result.t = "none"
  THEN Failure("Execution error", "exception")
  ELSE IF result.t = "DataFrame"
  THEN LET rows == IF Len(result.v) > max_rows
                   THEN Head_n(result.v, max_rows) ELSE result.v
       IN [success |-> TRUE, data |-> rows, columns |-> <<"id", "status", "amount">>,
           row_count |-> Len(rows), truncated |-> Len(rows) >= max_rows]
  ELSE IF result.t = "Series"
  THEN LET notna(x) == x.t # "none"
           kept == SelectSeq(result.v, notna)
           rows == IF Len(kept) > max_rows THEN Head_n(kept, max_rows) ELSE kept
       IN [success |-> TRUE, data |-> rows, columns |-> <<"amount">>,
           row_count |-> Len(rows), truncated |-> Len(rows) >= max_rows]
  ELSE IF result.t \in {"list", "dict", "str", "int", "float", "bool"}
  THEN [success |-> TRUE, data |-> result, type |-> result.t]
  ELSE Failure("Execution error", "exception")

\* lines 108-140 of execute_query: the response for the value of 'result'
coerce_result(result, max_rows) ==
  IF result.t = "none"
  THEN Failure("Query must assign result to a variable named \"result\"", "")
  ELSE IF result.t = "DataFrame"
  THEN LET rows == IF Len(result.v) > max_rows
                   THEN Head_n(result.v, max_rows) ELSE result.v
       IN [success |-> TRUE, data |-> rows, columns |-> <<"id", "status", "amount">>,
           row_count |-> Len(rows), truncated |-> Len(rows) >= max_rows]
  ELSE IF result.t = "Series"
  THEN LET notna(x) == x.t # "none"
           kept == SelectSeq(result.v, notna)
           rows == IF Len(kept) > max_rows THEN Head_n(kept, max_rows) ELSE kept
       IN [success |-> TRUE, data |-> rows, columns |-> <<"amount">>,
           row_count |-> Len(rows), truncated |-> Len(rows) >= max_rows]
  ELSE IF result.t \in {"list", "dict", "str", "int", "float", "bool"}
  THEN [success |-> TRUE, data |-> result, type |-> result.t]
  ELSE Failure("Unsupported result type", result.t)

Pending == [pending |-> TRUE]

\* a call in progress: where it is, its arguments, what it did so far
\* (events), what validate_query answered (verdict), whether an exception
\* left it, and what it returned
QueryCall(fn, code, df, max_rows, plotly) ==
  [pc |-> IF fn = "execute_query" THEN "validate" ELSE "precheck",
   fn |-> fn, code |-> code, df |-> df, max_rows |-> max_rows,
   plotly |-> plotly, events |-> <<>>, verdict |-> Pending, raised |-> FALSE,
   ret |-> Pending]

Returned(qs, event, ret) ==
  [qs EXCEPT !.pc = "done", !.events = Append(@, event), !.ret = ret]
Raised(qs, event) ==
  [qs EXCEPT !.pc = "done", !.events = Append(@, event), !.raised = TRUE]
Goes(qs, event, pc) ==
  [qs EXCEPT !.pc = pc, !.events = Append(@, event)]

\* Faulty variant of the validation step: the QueryValidationError is swallowed
validated_ignoring_error(qs) ==
  Goes([qs EXCEPT !.verdict = validate_query(qs.code)], "validate",
       IF qs.fn = "execute_query" THEN "namespace" ELSE "import")

\* validate_query(code) in its try/except, in both functions
validated(qs) ==
  LET v == validate_query(qs.code)
      qv == [qs EXCEPT !.verdict = v]
  IN IF ~v.ok
     THEN Returned(qv, "validate", Failure("Validation failed", v.error))
     ELSE Goes(qv, "validate", IF qs.fn = "execute_query" THEN "namespace" ELSE "import")

\* execute_fig_code: if not fig_code or not isinstance(fig_code, str)
prechecked(qs) ==
  IF qs.code.t # "str" \/ qs.code.v = ""
  THEN Returned(qs, "precheck", Failure("No fig_code provided", ""))
  ELSE Goes(qs, "precheck", "validate")

\* execute_fig_code: import plotly in its try/except ImportError
imported(qs) ==
  IF ~qs.plotly
  THEN Returned(qs, "import", Failure("plotly is not installed", ""))
  ELSE Goes(qs, "import", "namespace")

\* safe_namespace = {..., 'df': df.copy(), ...}: outside any try, so what
\* df.copy() raises leaves the function
namespace_built(qs) ==
  IF qs.df.t # "DataFrame"
  THEN Raised(qs, "namespace")
  ELSE Goes(qs, "namespace", "exec")

\* the try block of execute_query: exec, then the response for 'result'
query_executed(qs) ==
  LET r == exec_snippet(qs.code, QueryNamespace, SafeBuiltins, qs.df) IN
    IF r.hangs THEN Goes(qs, "exec", "hung")
    ELSE IF r.raised
    THEN Returned(qs, "exec", Failure("Execution error", "exception"))
    ELSE Returned(qs, "exec", coerce_result(DictGet(r.binds, "result"), qs.max_rows))

\* the try block of execute_fig_code: exec, then fig.to_json()
fig_executed(qs) ==
  LET r == exec_snippet(qs.code, FigNamespace, SafeBuiltins, qs.df) IN
    IF r.hangs THEN Goes(qs, "exec", "hung")
    ELSE IF r.raised
    THEN Returned(qs, "exec", Failure("Execution error", "exception"))
    ELSE IF DictGet(r.binds, "fig").t = "none"
    THEN Returned(qs, "exec",
           Failure("fig_code must assign a Plotly figure to a variable named \"fig\"", ""))
    ELSE Returned(qs, "exec",
           [success |-> TRUE, fig_json |-> DictGet(r.binds, "fig").v])

(***************************************************************************)
(* SpecQuery: calls of execute_query and execute_fig_code, one at a time,  *)
(* each followed step by step.                                             *)
(***************************************************************************)
CodeInputs ==
  {PyNone} \cup
  {PyStr(c) : c \in {Q_empty, Q_frame, Q_series, Q_import, Q_dunder, Q_syntax,
                     Q_open, Q_keyerror, Q_noresult, Q_int, Q_tuple, Q_def,
                     Q_class, Q_fig, Q_all, Q_async, Q_nested_import,
                     Q_nested_call, Q_attr_call, Q_str, Q_float, Q_bool,
                     Q_list, Q_dict, Q_while}}

FrameInputs == {PyFrame(<<1, 2, 3>>), PyNone}
MaxRowsInputs == {2, 3, DEFAULT_MAX_ROWS}

InitQuery ==
  /\ active_filters = <<>>
  /\ call = IdleCall
  /\ enr = EnrIdle
  /\ q = QIdle
  /\ sessions = SessionsIdle
  /\ dig = DigIdle

CallExecuteQuery(code, df, max_rows) ==
  /\ q.pc = "idle"
  /\ q' = QueryCall("execute_query", code, df, max_rows, TRUE)
  /\ UNCHANGED <<active_filters, call, enr, sessions, dig>>

CallExecuteFigCode(code, df, plotly) ==
  /\ q.pc = "idle"
  /\ q' = QueryCall("execute_fig_code", code, df, DEFAULT_MAX_ROWS, plotly)
  /\ UNCHANGED <<active_filters, call, enr, sessions, dig>>

Precheck ==
  /\ q.pc = "precheck"
  /\ q' = prechecked(q)
  /\ UNCHANGED <<active_filters, call, enr, sessions, dig>>

Validate ==
  /\ q.pc = "validate"
  /\ q' = validated(q)
  /\ UNCHANGED <<active_filters, call, enr, sessions, dig>>

ImportPlotly ==
  /\ q.pc = "import"
  /\ q' = imported(q)
  /\ UNCHANGED <<active_filters, call, enr, sessions, dig>>

BuildNamespace ==
  /\ q.pc = "namespace"
  /\ q' = namespace_built(q)
  /\ UNCHANGED <<active_filters, call, enr, sessions, dig>>

Execute ==
  /\ q.pc = "exec"
  /\ q' = IF q.fn = "execute_query" THEN query_executed(q) ELSE fig_executed(q)
  /\ UNCHANGED <<active_filters, call, enr, sessions, dig>>

Return ==
  /\ q.pc = "done"
  /\ q' = QIdle
  /\ UNCHANGED <<active_filters, call, enr, sessions, dig>>

NextQuery ==
  \/ \E code \in CodeInputs, df \in FrameInputs, max_rows \in MaxRowsInputs :
       CallExecuteQuery(code, df, max_rows)
  \/ \E code \in CodeInputs, df \in FrameInputs, plotly \in BOOLEAN :
       CallExecuteFigCode(code, df, plotly)
  \/ Precheck
  \/ Validate
  \/ ImportPlotly
  \/ BuildNamespace
  \/ Execute
  \/ Return

SpecQuery == InitQuery /\ [][NextQuery]_vars

(***************************************************************************)
(* Claims about execute_query and execute_fig_code (SpecQuery).            *)
(***************************************************************************)
InCall == q.pc # "idle"
Did(event) == \E i \in DOMAIN q.events : q.events[i] = event
Before(a, b) ==
  \A i \in DOMAIN q.events :
    q.events[i] = b => \E j \in 1..(i - 1) : q.events[j] = a

\* C9: in both functions the validator runs before the namespace is built,
\* before plotly is imported and before the snippet is executed; a code
\* string the validator rejects is answered {success: false, error} and is
\* never executed.
C9_ValidationFirst ==
  InCall =>
    /\ Before("validate", "namespace")
    /\ Before("validate", "import")
    /\ Before("validate", "exec")
    /\ (q.pc = "done" /\ ~validate_query(q.code).ok) =>
         /\ ~q.raised
         /\ ~Did("namespace") /\ ~Did("exec")
         /\ ~q.ret.success
         /\ "error" \in DOMAIN q.ret

C9_Witness ==
  /\ q.pc = "done"
  /\ q.fn = "execute_fig_code"
  /\ q.code = PyStr(Q_open)
  /\ Did("validate")
  /\ q.ret = Failure("Validation failed", "Blocked function call")

\* C10: once the code has passed validation, execute_query lets no
\* exception out: whatever is raised afterwards comes back as
\* {success: false, error: "Execution error: ..."}.
C10_NoExceptionEscapes ==
  (q.pc = "done" /\ q.fn = "execute_query" /\ validate_query(q.code).ok)
  => ~q.raised

\* the rows of the tabular value the snippet of the call left in 'result':
\* the rows of a DataFrame, the non-null values of a Series
ResultOfCall ==
  DictGet(exec_snippet(q.code, QueryNamespace, SafeBuiltins, q.df).binds, "result")
IsTabular(result) == result.t \in {"DataFrame", "Series"}
TabularRows(result) ==
  IF result.t = "DataFrame" THEN result.v
  ELSE [i \in 1..Cardinality({j \in DOMAIN result.v : result.v[j].t # "none"}) |->
          LET S == {j \in DOMAIN result.v : result.v[j].t # "none"}
              pos == CHOOSE j \in S : Cardinality({k \in S : k < j}) = i - 1
          IN result.v[pos]]
Executed == q.pc = "done" /\ q.fn = "execute_query" /\ ~q.raised /\ Did("exec")

\* C11: a tabular result of n rows under the cap max_rows comes back as its
\* first min(n, max_rows) rows in order; row_count is the number of rows
\* returned and never exceeds max_rows; truncated is true exactly when
\* n >= max_rows.
C11_RowCountBounded ==
  (Executed /\ IsTabular(ResultOfCall)) =>
    LET rows == TabularRows(ResultOfCall)
        n == Len(rows)
        m == IF n < q.max_rows THEN n ELSE q.max_rows
    IN /\ q.ret.success
       /\ q.ret.data = [i \in 1..m |-> rows[i]]
       /\ q.ret.row_count = Len(q.ret.data)
       /\ q.ret.row_count <= q.max_rows
       /\ q.ret.truncated = (n >= q.max_rows)

C11_Witness ==
  /\ Executed
  /\ q.code = PyStr(Q_all)
  /\ q.max_rows = 2
  /\ Len(TabularRows(ResultOfCall)) = 3
  /\ q.ret.data = <<1, 2>>
  /\ q.ret.row_count = 2
  /\ q.ret.truncated

\* what ast.walk finds in the code of the call
Tree == Source(q.code.v).nodes
HasImport == \E n \in Tree : n.kind \in {"Import", "ImportFrom"}
HasFunctionDefinition == \E n \in Tree : n.kind \in {"FunctionDef", "AsyncFunctionDef"}
HasClassDefinition == \E n \in Tree : n.kind = "ClassDef"
HasDeniedCall == \E n \in Tree : n.kind = "Call" /\ n.id \in BLOCKED_CALLS
Validated == InCall /\ Did("validate") /\ q.code.t = "str" /\ q.code.v # ""

\* C12: validate_query rejects every parseable code string whose syntax tree
\* holds, at any depth, an import statement, a named function definition, a
\* class definition or a call of a bare identifier of the deny-list; it
\* accepts only a code string with none of these and no forbidden substring.
C12_StructuralScreenComplete ==
  Validated =>
    /\ (Source(q.code.v).parses
         /\ (HasImport \/ HasFunctionDefinition \/ HasClassDefinition \/ HasDeniedCall))
       => ~q.verdict.ok
    /\ q.verdict.ok =>
         /\ ~(HasImport \/ HasFunctionDefinition \/ HasClassDefinition \/ HasDeniedCall)
         /\ Source(q.code.v).blocked = {}

\* C13: a code string with malformed syntax is rejected with an exception of
\* a proper subclass of QueryValidationError, a class no other rejection
\* (blocked token, import, definition, deny-listed call) raises.
C13_SyntaxErrorSubtype ==
  (Validated /\ Source(q.code.v).blocked = {} /\ ~Source(q.code.v).parses) =>
    /\ ~q.verdict.ok
    /\ q.verdict.exc \in ExceptionClasses
    /\ q.verdict.exc # "QueryValidationError"
    /\ ExcBase(q.verdict.exc) = "QueryValidationError"
    /\ \A code \in CodeInputs :
         (code.t = "str" /\ code.v # "" /\ Source(code.v).parses)
           => validate_query(code).exc # q.verdict.exc

\* the snippet of the call ran to its end without raising
RanClean ==
  Executed /\ ~exec_snippet(q.code, QueryNamespace, SafeBuiltins, q.df).raised

C24_AcceptedCodeTerminates ==
  /\ (Validated /\ q.verdict.ok) =>
       ~\E n \in Tree : n.kind \in {"While", "For"}
  /\ q.pc # "hung"


(***************************************************************************)
(* chart_digitizer_bot.py: ChartDigitizerBot.digitize                      *)
(***************************************************************************)
MaxPasses == 3

\* the responses of the model
R_bad == "not json"
R_trunc == "{\"a\": [{\"x\": 1}, {\"x\": 2"
R_list == "[]"
\* <fence> stands for the three backquotes of a Markdown fence
R_fenced == "<fence>json\n{\"a\": []}\n<fence>"
R_sci == "{\"a\": [{\"x\": 1.E+01}]}"
R_1 == "{\"a\": [{\"x\": 1}]}"
R_3 == "{\"a\": [{\"x\": 1}, {\"x\": 2}], \"b\": [{\"x\": 3}]}"
R_4 == "{\"a\": [{\"x\": 1}, {\"x\": 2}], \"b\": [{\"x\": 3}, {\"x\": 4}]}"

\* What lines 103-112 make of a response: _fix_sci_notation, _strip_fences,
\* json.loads and, when that fails, json.loads of _repair_truncated_json.
\* outcome is "fail" when both fail; value is the parsed JSON, a series
\* being the list of the x of its points.
Parsed(raw) ==
  CASE raw = R_bad -> [outcome |-> "fail", value |-> PyNone]
    [] raw = R_trunc -> [outcome |-> "repaired", value |-> PyDict([a |-> <<1>>])]
    [] raw = R_list -> [outcome |-> "loaded", value |-> PyList(<<>>)]
    [] raw = R_fenced -> [outcome |-> "loaded", value |-> PyDict([a |-> <<>>])]
    [] raw = R_sci -> [outcome |-> "loaded", value |-> PyDict([a |-> <<10>>])]
    [] raw = R_1 -> [outcome |-> "loaded", value |-> PyDict([a |-> <<1>>])]
    [] raw = R_3 ->
         [outcome |-> "loaded", value |-> PyDict([a |-> <<1, 2>>, b |-> <<3>>])]
    [] raw = R_4 ->
         [outcome |-> "loaded", value |-> PyDict([a |-> <<1, 2>>, b |-> <<3, 4>>])]

Responses == {R_bad, R_trunc, R_list, R_fenced, R_sci, R_1, R_3, R_4}

\* data_keys of the call
DataKeys == <<"a", "b">>

\* sum(len(result.get(k, [])) for k in data_keys)
RECURSIVE count_points(_, _, _)
count_points(result, data_keys, k) ==
  IF k > Len(data_keys) THEN 0
  ELSE (IF data_keys[k] \in DOMAIN result THEN Len(result[data_keys[k]]) ELSE 0)
       + count_points(result, data_keys, k + 1)

\* {k: [] for k in data_keys}
empty_result(data_keys) ==
  [key \in {data_keys[k] : k \in DOMAIN data_keys} |-> <<>>]

\* result["_passes"] = passes; result["_stop_reason"] = reason; return result
stopped(result, passes, reason) ==
  DictPut(DictPut(result, "_passes", passes), "_stop_reason", reason)

\* a digitize call in progress: where it is (at the head of the for loop
\* with pass_num, after the loop, or done), its locals, and what it did so
\* far: the responses it got (raws), the count of every pass it parsed
\* (counts), the on_pass calls it made, whether an exception left it and
\* what it returned
DigitizeCall(max_passes, min_new_points, matplotlib) ==
  [pc |-> IF max_passes >= 1 THEN "loop" ELSE "after",
   max_passes |-> max_passes, min_new_points |-> min_new_points,
   matplotlib |-> matplotlib, data_keys |-> DataKeys,
   pass_num |-> 1, result |-> PyNone, prev_count |-> 0,
   calls |-> 0, raws |-> <<>>, counts |-> <<>>, on_pass |-> <<>>,
   raised |-> FALSE, ret |-> Pending]

DigReturned(ds, ret) == [ds EXCEPT !.pc = "done", !.ret = ret]
DigRaised(ds) == [ds EXCEPT !.pc = "done", !.raised = TRUE]

\* one pass of the for loop (lines 89-133) on the response raw
digitize_pass(ds, raw) ==
  IF ds.pass_num > 1 /\ ~ds.matplotlib THEN DigRaised(ds)
  ELSE
    LET called == [ds EXCEPT !.calls = @ + 1, !.raws = Append(@, raw)]
        parsed == Parsed(raw)
    IN IF parsed.outcome = "fail"
       THEN IF ds.result.t # "none"
            THEN [called EXCEPT !.pc = "after"]
            ELSE DigReturned(called,
                   stopped(empty_result(ds.data_keys), ds.pass_num, "error"))
       ELSE IF parsed.value.t # "dict"
       THEN DigRaised([called EXCEPT !.result = parsed.value])
       ELSE
         LET curr_count == count_points(parsed.value.v, ds.data_keys, 1)
             delta == IF curr_count >= ds.prev_count
                      THEN curr_count - ds.prev_count
                      ELSE ds.prev_count - curr_count
             passed == [called EXCEPT !.result = parsed.value,
                                      !.counts = Append(@, curr_count),
                                      !.on_pass = Append(@, ds.pass_num)]
         IN IF ds.pass_num > 1 /\ delta < ds.min_new_points
            THEN DigReturned(passed,
                   stopped(parsed.value.v, ds.pass_num, "stabilized"))
            ELSE [passed EXCEPT
                    !.prev_count = curr_count,
                    !.pass_num = @ + 1,
                    !.pc = IF ds.pass_num + 1 > ds.max_passes
                           THEN "after" ELSE "loop"]

\* lines 135-140, after the loop
digitize_end(ds) ==
  LET result == IF ds.result.t = "none" THEN empty_result(ds.data_keys)
                ELSE ds.result.v
  IN DigReturned(ds, stopped(result, ds.max_passes, "max_passes"))

(***************************************************************************)
(* SpecDigitize: digitize calls, one at a time, each followed pass by      *)
(* pass; the model answers every call with one of Responses.               *)
(***************************************************************************)
MaxPassesInputs == 0..MaxPasses
MinNewPointsInputs == {2}

InitDigitize ==
  /\ active_filters = <<>>
  /\ call = IdleCall
  /\ enr = EnrIdle
  /\ q = QIdle
  /\ sessions = SessionsIdle
  /\ dig = DigIdle

CallDigitize(max_passes, min_new_points, matplotlib) ==
  /\ dig.pc = "idle"
  /\ dig' = DigitizeCall(max_passes, min_new_points, matplotlib)
  /\ UNCHANGED <<active_filters, call, enr, q, sessions>>

DigitizePass(raw) ==
  /\ dig.pc = "loop"
  /\ dig' = digitize_pass(dig, raw)
  /\ UNCHANGED <<active_filters, call, enr, q, sessions>>

DigitizeEnd ==
  /\ dig.pc = "after"
  /\ dig' = digitize_end(dig)
  /\ UNCHANGED <<active_filters, call, enr, q, sessions>>

DigitizeReturn ==
  /\ dig.pc = "done"
  /\ dig' = DigIdle
  /\ UNCHANGED <<active_filters, call, enr, q, sessions>>

NextDigitize ==
  \/ \E max_passes \in MaxPassesInputs, min_new_points \in MinNewPointsInputs,
        matplotlib \in BOOLEAN :
       CallDigitize(max_passes, min_new_points, matplotlib)
  \/ \E raw \in Responses : DigitizePass(raw)
  \/ DigitizeEnd
  \/ DigitizeReturn

SpecDigitize == InitDigitize /\ [][NextDigitize]_vars

(***************************************************************************)
(* Claims about digitize (SpecDigitize).                                   *)
(***************************************************************************)
DigitizeReturned == dig.pc = "done" /\ ~dig.raised

\* C26: on every return path "_passes" is the number of passes performed,
\* that is the number of calls made to the model.
C26_PassesPerformed ==
  DigitizeReturned => dig.ret["_passes"] = dig.calls

\* the points pass p added to the total of the pass before it
Added(p) == dig.counts[p] - dig.counts[p - 1]

\* C27: digitize stops as "stabilized" on a pass after the first exactly
\* when that pass added fewer than min_new_points points to the total of
\* the pass before it, a total that did not grow included; never on the
\* first pass.
C27_StabilizedWhenFewAdded ==
  dig.pc # "idle" =>
    /\ \A p \in DOMAIN dig.counts :
         (p > 1 /\ Added(p) < dig.min_new_points) =>
           /\ p = Len(dig.counts)
           /\ DigitizeReturned
           /\ dig.ret["_stop_reason"] = "stabilized"
    /\ (DigitizeReturned /\ dig.ret["_stop_reason"] = "stabilized") =>
         /\ Len(dig.counts) > 1
         /\ dig.ret["_passes"] = Len(dig.counts)
         /\ Added(Len(dig.counts)) < dig.min_new_points

\* the passes whose response was parsed, as it came or after repair
ParsedPasses ==
  {i \in DOMAIN dig.raws : Parsed(dig.raws[i]).outcome # "fail"}

\* C29: whatever the model answers, digitize makes at most max_passes calls
\* and is never stuck in its loop; the dict it returns has a _stop_reason
\* among "stabilized", "max_passes" and "error", "error" only when the
\* first response cannot be parsed even after repair; on_pass is called
\* once for every parsed pass, in increasing pass order.
C29_DigitizeTerminates ==
  dig.pc # "idle" =>
    /\ dig.calls = Len(dig.raws)
    /\ dig.calls <= dig.max_passes \/ dig.calls = 0
    /\ dig.pc = "loop" => dig.pass_num = dig.calls + 1 /\ dig.pass_num <= dig.max_passes
    /\ DigitizeReturned =>
         /\ dig.ret["_stop_reason"] \in {"stabilized", "max_passes", "error"}
         /\ dig.ret["_stop_reason"] = "error" =>
              dig.calls = 1 /\ Parsed(dig.raws[1]).outcome = "fail"
    /\ Len(dig.on_pass) = Cardinality(ParsedPasses)
    /\ \A n \in DOMAIN dig.on_pass : dig.on_pass[n] \in ParsedPasses
    /\ \A n, m \in DOMAIN dig.on_pass : n < m => dig.on_pass[n] < dig.on_pass[m]

====
